---- MODULE Spec2Model ----
(***************************************************************************)
(* A model of up_docu_check (src/main.py): the text extractors' dispatch,  *)
(* the approval analysis call and its decision display, and the            *)
(* side-by-side diff renderer with its word-level highlighting.            *)
(*                                                                         *)
(* Text is a sequence of one-character strings.  Rendered HTML is a        *)
(* sequence of atoms: an escaped character ("a", "&lt;") or a whole tag    *)
(* literal ("<del>", "</del>", "<ins>", "</ins>").                         *)
(***************************************************************************)
EXTENDS Integers, Sequences, FiniteSets, TLC

VARIABLES
    pc,                 \* position of the running call / script run
    text1, text2,       \* side_by_side_diff: its two arguments
    rows,               \* side_by_side_diff: the list `rows`
    html_rows,          \* side_by_side_diff: the list `html_rows`
    a_line, b_line,     \* word_level_diff: its two arguments
    out,                \* word_level_diff: the list `out`
    secrets,            \* main: st.secrets, the deployment's configuration
    mode,               \* main: the sidebar's mode
    client,             \* main: the service client, or None
    doc1_file, doc2_file,   \* main: the uploads (their declared type), or None
    doc1_text, doc2_text,   \* main: the extracted texts, or None
    analysis_result,    \* main: what analyze_document_approval returned
    shown,              \* main: the decision banner shown, "" when none is
    diff_html,          \* main: the rows of the diff table rendered
    errors,             \* the st.error messages shown, in order
    gdt_calls,          \* history: the get_document_text calls made
    requests,           \* history: the requests sent to the completion service
    raised_at           \* where an exception escaped main, "" when none did

diffVars == <<text1, text2, rows, html_rows>>

wordVars == <<a_line, b_line, out>>

mainVars == <<secrets, mode, client, doc1_file, doc2_file, doc1_text, doc2_text,
              analysis_result, shown, diff_html, errors, gdt_calls, requests,
              raised_at>>

vars == <<pc, diffVars, wordVars, mainVars>>

\* Python's None, as a value comparable with text (no text holds the
\* four-character element "None": text is made of one-character strings).
None == <<"None">>

\* The variables of a component that is not running.
DiffIdle == text1 = <<>> /\ text2 = <<>> /\ rows = <<>> /\ html_rows = <<>>

WordIdle == a_line = <<>> /\ b_line = <<>> /\ out = <<>>

MainIdle ==
    /\ secrets = "" /\ mode = "" /\ client = None
    /\ doc1_file = "None" /\ doc2_file = "None"
    /\ doc1_text = None /\ doc2_text = None
    /\ analysis_result = None /\ shown = "" /\ diff_html = None
    /\ errors = <<>> /\ gdt_calls = <<>> /\ requests = <<>> /\ raised_at = ""

\* ------------------------------------------------------------- bounds

MaxTextLen == 3
MaxLineLen == 4

\* ------------------------------------------------------- small helpers

Max(x, y) == IF x >= y THEN x ELSE y

Min(x, y) == IF x <= y THEN x ELSE y

Strings(A, n) == UNION {[1..k -> A] : k \in 0..n}

RECURSIVE Flatten(_)
Flatten(ss) == IF ss = <<>> THEN <<>> ELSE Head(ss) \o Flatten(Tail(ss))

\* Python's s[i:j] on a 0-based sequence, 0 <= i, j.
Slice(s, i, j) == SubSeq(s, i + 1, Min(j, Len(s)))

\* --------------------------------------------------- character classes

WordChars == {"a", "b", "c", "x", "y", "_", "0", "1"}

SpaceChars == {" ", "\t", "\n", "\r"}

IsWord(c) == c \in WordChars

IsSpace(c) == c \in SpaceChars

\* html.escape(s) with quote=True, one atom per character.
EscapeChar(c) ==
    CASE c = "&"  -> "&amp;"
      [] c = "<"  -> "&lt;"
      [] c = ">"  -> "&gt;"
      [] c = "\"" -> "&quot;"
      [] c = "'"  -> "&#x27;"
      [] OTHER    -> c

html_escape(s) == [i \in DOMAIN s |-> EscapeChar(s[i])]

\* ------------------------------------------------------ diff utilities

\* text.replace("\r\n", "\n").replace("\r", "\n")
RECURSIVE ReplaceCRLF(_)
ReplaceCRLF(s) ==
    IF s = <<>> THEN <<>>
    ELSE IF Len(s) >= 2 /\ s[1] = "\r" /\ s[2] = "\n"
         THEN <<"\n">> \o ReplaceCRLF(SubSeq(s, 3, Len(s)))
         ELSE <<s[1]>> \o ReplaceCRLF(Tail(s))

ReplaceCR(s) == [i \in DOMAIN s |-> IF s[i] = "\r" THEN "\n" ELSE s[i]]

normalize_newlines(text) == ReplaceCR(ReplaceCRLF(text))

\* text.split("\n"): always at least one (possibly empty) line.  The lines
\* of s from position start on.
RECURSIVE SplitFrom(_, _)
SplitFrom(s, start) ==
    IF \E i \in start..Len(s) : s[i] = "\n"
    THEN LET i == CHOOSE i \in start..Len(s) :
                      s[i] = "\n" /\ \A j \in start..(i - 1) : s[j] # "\n"
         IN  <<SubSeq(s, start, i - 1)>> \o SplitFrom(s, i + 1)
    ELSE <<SubSeq(s, start, Len(s))>>

\* str.splitlines() in place of split("\n"): no line after a final newline.
split_lines_splitlines(text) ==
    LET ls == SplitFrom(text, 1)
    IN  IF ls[Len(ls)] = <<>> THEN SubSeq(ls, 1, Len(ls) - 1) ELSE ls

split_lines(text) == SplitFrom(text, 1)

\* re.findall(r"\w+|[^\w\s]", s, re.UNICODE)
RECURSIVE WordRun(_)
WordRun(s) ==
    IF s # <<>> /\ IsWord(Head(s)) THEN 1 + WordRun(Tail(s)) ELSE 0

RECURSIVE tokenize_words(_)
tokenize_words(s) ==
    IF s = <<>> THEN <<>>
    ELSE IF IsWord(Head(s))
         THEN LET n == WordRun(s)
              IN  <<SubSeq(s, 1, n)>> \o tokenize_words(SubSeq(s, n + 1, Len(s)))
         ELSE IF IsSpace(Head(s))
              THEN tokenize_words(Tail(s))
              ELSE <<<<Head(s)>>>> \o tokenize_words(Tail(s))

\* ------------------------------------------- difflib.SequenceMatcher
\* Indices are Python's: 0-based, ranges half-open; a[i] is a[i + 1] here.

\* __chain_b with isjunk=None, autojunk=True: the elements of b dropped
\* from b2j as "popular".
Popular(b) ==
    IF Len(b) >= 200
    THEN {e \in {b[k] : k \in DOMAIN b} :
             Cardinality({k \in DOMAIN b : b[k] = e}) > (Len(b) \div 100) + 1}
    ELSE {}

\* j2len[j] after processing a[i]: the length of the run of b2j matches
\* ending at (i, j) inside [alo, ..) x [blo, ..).
RECURSIVE RunLen(_, _, _, _, _, _)
RunLen(a, b, i, j, alo, blo) ==
    IF i < alo \/ j < blo THEN 0
    ELSE IF a[i + 1] # b[j + 1] \/ b[j + 1] \in Popular(b) THEN 0
    ELSE 1 + RunLen(a, b, i - 1, j - 1, alo, blo)

RECURSIVE ExtendLeft(_, _, _, _, _)
ExtendLeft(a, b, m, alo, blo) ==
    IF m[1] > alo /\ m[2] > blo /\ a[m[1]] = b[m[2]]
    THEN ExtendLeft(a, b, <<m[1] - 1, m[2] - 1, m[3] + 1>>, alo, blo)
    ELSE m

RECURSIVE ExtendRight(_, _, _, _, _)
ExtendRight(a, b, m, ahi, bhi) ==
    IF m[1] + m[3] < ahi /\ m[2] + m[3] < bhi /\ a[m[1] + m[3] + 1] = b[m[2] + m[3] + 1]
    THEN ExtendRight(a, b, <<m[1], m[2], m[3] + 1>>, ahi, bhi)
    ELSE m

\* find_longest_match(alo, ahi, blo, bhi): <<besti, bestj, bestsize>>.
find_longest_match(a, b, alo, ahi, blo, bhi) ==
    LET Cells == (alo..(ahi - 1)) \X (blo..(bhi - 1))
        K(c)  == RunLen(a, b, c[1], c[2], alo, blo)
        best  == IF \E c \in Cells : K(c) > 0
                 THEN LET top   == CHOOSE c \in Cells : \A d \in Cells : K(d) <= K(c)
                          size  == K(top)
                          Tops  == {c \in Cells : K(c) = size}
                          \* the first cell, in the loops' order, to reach size
                          first == CHOOSE c \in Tops : \A d \in Tops :
                                       c[1] < d[1] \/ (c[1] = d[1] /\ c[2] <= d[2])
                      IN  <<first[1] - size + 1, first[2] - size + 1, size>>
                 ELSE <<alo, blo, 0>>
    IN  ExtendRight(a, b, ExtendLeft(a, b, best, alo, blo), ahi, bhi)

\* get_matching_blocks, before the merge of adjacent blocks: the blocks of
\* the queue's recursion, sorted.
RECURSIVE MatchingBlocksIn(_, _, _, _, _, _)
MatchingBlocksIn(a, b, alo, ahi, blo, bhi) ==
    LET x == find_longest_match(a, b, alo, ahi, blo, bhi)
        i == x[1]
        j == x[2]
        k == x[3]
    IN  IF k = 0 THEN <<>>
        ELSE (IF alo < i /\ blo < j
              THEN MatchingBlocksIn(a, b, alo, i, blo, j) ELSE <<>>)
             \o <<x>>
             \o (IF i + k < ahi /\ j + k < bhi
                 THEN MatchingBlocksIn(a, b, i + k, ahi, j + k, bhi) ELSE <<>>)

\* The merge of adjacent blocks (i1 + k1 = i2 and j1 + k1 = j2).
RECURSIVE NonAdjacent(_, _)
NonAdjacent(blocks, cur) ==
    IF blocks = <<>>
    THEN IF cur[3] # 0 THEN <<cur>> ELSE <<>>
    ELSE LET x == Head(blocks)
         IN  IF cur[1] + cur[3] = x[1] /\ cur[2] + cur[3] = x[2]
             THEN NonAdjacent(Tail(blocks), <<cur[1], cur[2], cur[3] + x[3]>>)
             ELSE (IF cur[3] # 0 THEN <<cur>> ELSE <<>>)
                  \o NonAdjacent(Tail(blocks), x)

get_matching_blocks(a, b) ==
    NonAdjacent(MatchingBlocksIn(a, b, 0, Len(a), 0, Len(b)), <<0, 0, 0>>)
        \o <<<<Len(a), Len(b), 0>>>>

\* get_opcodes: records [tag, i1, i2, j1, j2].
RECURSIVE OpcodesFrom(_, _, _)
OpcodesFrom(blocks, i, j) ==
    IF blocks = <<>> THEN <<>>
    ELSE LET ai   == Head(blocks)[1]
             bj   == Head(blocks)[2]
             size == Head(blocks)[3]
             tag  == IF i < ai /\ j < bj THEN "replace"
                     ELSE IF i < ai THEN "delete"
                     ELSE IF j < bj THEN "insert"
                     ELSE ""
         IN  (IF tag # ""
              THEN <<[tag |-> tag, i1 |-> i, i2 |-> ai, j1 |-> j, j2 |-> bj]>>
              ELSE <<>>)
             \o (IF size # 0
                 THEN <<[tag |-> "equal", i1 |-> ai, i2 |-> ai + size,
                         j1 |-> bj, j2 |-> bj + size]>>
                 ELSE <<>>)
             \o OpcodesFrom(Tail(blocks), ai + size, bj + size)

get_opcodes(a, b) == OpcodesFrom(get_matching_blocks(a, b), 0, 0)

\* ------------------------------------------------------ word_level_diff

EscapeTokens(toks) == Flatten([k \in DOMAIN toks |-> html_escape(toks[k])])

\* The replace branch building its inserted segment from a_tokens.
WordSegments_wrong_side(op, a_tokens, b_tokens) ==
    LET aseg == EscapeTokens(Slice(a_tokens, op.i1, op.i2))
        bseg == EscapeTokens(Slice(b_tokens, op.j1, op.j2))
    IN  CASE op.tag = "equal"   -> <<[mark |-> "plain", seg |-> aseg]>>
          [] op.tag = "delete"  -> <<[mark |-> "del", seg |-> aseg]>>
          [] op.tag = "insert"  -> <<[mark |-> "ins", seg |-> bseg]>>
          [] op.tag = "replace" -> <<[mark |-> "del", seg |-> aseg],
                                     [mark |-> "ins", seg |-> aseg]>>

\* The segments one opcode appends to `out`: [mark, seg].
WordSegments(op, a_tokens, b_tokens) ==
    LET aseg == EscapeTokens(Slice(a_tokens, op.i1, op.i2))
        bseg == EscapeTokens(Slice(b_tokens, op.j1, op.j2))
    IN  CASE op.tag = "equal"   -> <<[mark |-> "plain", seg |-> aseg]>>
          [] op.tag = "delete"  -> <<[mark |-> "del", seg |-> aseg]>>
          [] op.tag = "insert"  -> <<[mark |-> "ins", seg |-> bseg]>>
          [] op.tag = "replace" -> <<[mark |-> "del", seg |-> aseg],
                                     [mark |-> "ins", seg |-> bseg]>>

\* The list `out` of word_level_diff(a_line, b_line).
WordOut(a, b) ==
    LET a_tokens == tokenize_words(a)
        b_tokens == tokenize_words(b)
        ops      == get_opcodes(a_tokens, b_tokens)
    IN  Flatten([k \in DOMAIN ops |-> WordSegments(ops[k], a_tokens, b_tokens)])

\* One element of `out` as HTML text.
RenderSegment(s) ==
    CASE s.mark = "plain" -> s.seg
      [] s.mark = "del"   -> <<"<del>">> \o s.seg \o <<"</del>">>
      [] s.mark = "ins"   -> <<"<ins>">> \o s.seg \o <<"</ins>">>

\* "".join(out)
word_level_diff(a, b) ==
    LET o == WordOut(a, b)
    IN  Flatten([k \in DOMAIN o |-> RenderSegment(o[k])])

\* ---------------------------------------------------- side_by_side_diff
\* A row is [kind, left, right] as in the code, with li and ri recording
\* which line of each side the row read (1-based; 0: none, the row used "").

EqualRows(op, lines1, lines2) ==
    [n \in 1..(op.i2 - op.i1) |->
        [kind  |-> "equal",
         left  |-> html_escape(lines1[op.i1 + n]),
         right |-> html_escape(lines2[op.j1 + n]),
         li    |-> op.i1 + n,
         ri    |-> op.j1 + n]]

\* zip(left_block, right_block) in place of the loop to max_len.
ChangeRows_zip(op, lines1, lines2) ==
    LET left_block  == Slice(lines1, op.i1, op.i2)
        right_block == Slice(lines2, op.j1, op.j2)
    IN  [n \in 1..Min(Len(left_block), Len(right_block)) |->
            IF left_block[n] = right_block[n]
            THEN [kind |-> "equal", left |-> html_escape(left_block[n]),
                  right |-> html_escape(right_block[n]),
                  li |-> op.i1 + n, ri |-> op.j1 + n]
            ELSE [kind |-> "change", left |-> <<"<del>">>, right |-> <<"<ins>">>,
                  li |-> op.i1 + n, ri |-> op.j1 + n]]

ChangeRows(op, lines1, lines2) ==
    LET left_block  == Slice(lines1, op.i1, op.i2)
        right_block == Slice(lines2, op.j1, op.j2)
        max_len     == Max(Len(left_block), Len(right_block))
    IN  [n \in 1..max_len |->
            LET left_line  == IF n <= Len(left_block) THEN left_block[n] ELSE <<>>
                right_line == IF n <= Len(right_block) THEN right_block[n] ELSE <<>>
                srcl       == IF n <= Len(left_block) THEN op.i1 + n ELSE 0
                srcr       == IF n <= Len(right_block) THEN op.j1 + n ELSE 0
            IN  IF left_line = right_line
                THEN [kind |-> "equal", left |-> html_escape(left_line),
                      right |-> html_escape(right_line), li |-> srcl, ri |-> srcr]
                ELSE LET highlighted == word_level_diff(left_line, right_line)
                     IN  [kind |-> "change", left |-> highlighted,
                          right |-> highlighted, li |-> srcl, ri |-> srcr]]

LineOpcodes(t1, t2) ==
    get_opcodes(split_lines(normalize_newlines(t1)), split_lines(normalize_newlines(t2)))

BuildRows(t1, t2) ==
    LET lines1 == split_lines(normalize_newlines(t1))
        lines2 == split_lines(normalize_newlines(t2))
        ops    == get_opcodes(lines1, lines2)
    IN  Flatten([k \in DOMAIN ops |->
            IF ops[k].tag = "equal"
            THEN EqualRows(ops[k], lines1, lines2)
            ELSE ChangeRows(ops[k], lines1, lines2)])

\* The rule that gives a row its number cell and advances the counter.
HasNumber(cell_html) == cell_html # <<>>

\* The loop over rows: a number cell is <<n>>, or <<>> when blank.
RECURSIVE NumberRows(_, _, _)
NumberRows(rs, left_line_no, right_line_no) ==
    IF rs = <<>> THEN <<>>
    ELSE LET r == Head(rs)
             l == HasNumber(r.left)
             g == HasNumber(r.right)
         IN  <<[row_class  |-> IF r.kind = "equal" THEN "diff-equal" ELSE "diff-change",
                left_num   |-> IF l THEN <<left_line_no>> ELSE <<>>,
                left_html  |-> r.left,
                right_num  |-> IF g THEN <<right_line_no>> ELSE <<>>,
                right_html |-> r.right]>>
             \o NumberRows(Tail(rs),
                           IF l THEN left_line_no + 1 ELSE left_line_no,
                           IF g THEN right_line_no + 1 ELSE right_line_no)

\* ------------------------------------------------------------ inputs

DiffAlphabet == {"a", "<", " ", "\n", "\r"}

LineAlphabet == {"a", "b", " ", "<"}

\* ------------------------------------------------- specification: diff

InitDiff ==
    /\ pc = "start"
    /\ text1 \in Strings(DiffAlphabet, MaxTextLen)
    /\ text2 \in Strings(DiffAlphabet, MaxTextLen)
    /\ rows = <<>>
    /\ html_rows = <<>>
    /\ WordIdle
    /\ MainIdle

side_by_side_diff ==
    /\ pc = "start"
    /\ rows' = BuildRows(text1, text2)
    /\ html_rows' = NumberRows(rows', 1, 1)
    /\ pc' = "done"
    /\ UNCHANGED <<text1, text2, wordVars, mainVars>>

NextDiff == side_by_side_diff

SpecDiff == InitDiff /\ [][NextDiff]_vars

\* ---------------------------------------------------- claims: the diff

Lines1 == split_lines(normalize_newlines(text1))

Lines2 == split_lines(normalize_newlines(text2))

\* The number of line breaks of a text: "\r\n", a lone "\r" or a "\n".
LineBreaks(t) ==
    Cardinality({i \in DOMAIN t :
        \/ t[i] = "\n"
        \/ t[i] = "\r" /\ ~(i < Len(t) /\ t[i + 1] = "\n")})

\* Document 1 (Document 2) has a line with content on row k.
LeftHasContent(k) == rows[k].li # 0 /\ Lines1[rows[k].li] # <<>>

RightHasContent(k) == rows[k].ri # 0 /\ Lines2[rows[k].ri] # <<>>

\* C1: every row's left number cell is the next 1-based left counter value
\* when Document 1 has a line with content on that row, the counter then
\* advancing by one, and is blank with the counter unchanged otherwise (so a
\* purely-inserted row has a blank left cell); the same on the right side.
C1_NumbersFollowContent ==
    pc = "done" =>
        \A r \in DOMAIN html_rows :
            /\ html_rows[r].left_num =
                   IF LeftHasContent(r)
                   THEN <<1 + Cardinality({k \in 1..(r - 1) : LeftHasContent(k)})>>
                   ELSE <<>>
            /\ html_rows[r].right_num =
                   IF RightHasContent(r)
                   THEN <<1 + Cardinality({k \in 1..(r - 1) : RightHasContent(k)})>>
                   ELSE <<>>

\* C2: side_by_side_diff(t, t) has one row per line of t, every row of kind
\* "equal" and none rendered as changed.
C2_IdenticalTextsAllEqual ==
    (pc = "done" /\ text1 = text2) =>
        /\ Len(rows) = LineBreaks(text1) + 1
        /\ Len(html_rows) = Len(rows)
        /\ \A k \in DOMAIN rows :
               /\ rows[k].kind = "equal"
               /\ html_rows[k].row_class = "diff-equal"

C2_Witness ==
    /\ pc = "done"
    /\ text1 = text2
    /\ Len(rows) >= 2
    /\ \E k \in DOMAIN rows : rows[k].left # <<>>

\* C3: for an empty Document A and a non-empty Document B of N lines, every
\* row is a changed row, every left number cell is blank and the right
\* number cells are 1..N in order.
C3_EmptyLeftAllInserts ==
    (pc = "done" /\ text1 = <<>> /\ text2 # <<>>) =>
        /\ Len(html_rows) = LineBreaks(text2) + 1
        /\ \A r \in DOMAIN html_rows :
               /\ rows[r].kind = "change"
               /\ html_rows[r].left_num = <<>>
               /\ html_rows[r].right_num = <<r>>

\* The rows built before opcode k: the sum of max(i2 - i1, j2 - j1).
RECURSIVE RowsBefore(_, _)
RowsBefore(ops, k) ==
    IF k <= 1 THEN 0
    ELSE RowsBefore(ops, k - 1)
         + Max(ops[k - 1].i2 - ops[k - 1].i1, ops[k - 1].j2 - ops[k - 1].j1)

\* The nonzero entries of a sequence of indices, in order.
RECURSIVE Consumed(_)
Consumed(idx) ==
    IF idx = <<>> THEN <<>>
    ELSE (IF Head(idx) # 0 THEN <<Head(idx)>> ELSE <<>>) \o Consumed(Tail(idx))

\* C9: the rows cover both line sequences completely, in order and without
\* overlap; the opcodes are contiguous; within an opcode the lines are
\* paired positionally, a missing position being the empty string; and the
\* number of rows is the sum over opcodes of max(i2 - i1, j2 - j1).
C9_RowsCoverBothSides ==
    pc = "done" =>
        LET ops == LineOpcodes(text1, text2)
            n   == Len(ops)
        IN  /\ Consumed([k \in DOMAIN rows |-> rows[k].li]) = [i \in 1..Len(Lines1) |-> i]
            /\ Consumed([k \in DOMAIN rows |-> rows[k].ri]) = [j \in 1..Len(Lines2) |-> j]
            /\ n >= 1
            /\ ops[1].i1 = 0 /\ ops[1].j1 = 0
            /\ ops[n].i2 = Len(Lines1) /\ ops[n].j2 = Len(Lines2)
            /\ \A k \in 1..(n - 1) : ops[k + 1].i1 = ops[k].i2 /\ ops[k + 1].j1 = ops[k].j2
            /\ Len(rows) = RowsBefore(ops, n + 1)
            /\ \A k \in 1..n :
                   \A m \in 1..Max(ops[k].i2 - ops[k].i1, ops[k].j2 - ops[k].j1) :
                       LET r == rows[RowsBefore(ops, k) + m]
                           l == IF m <= ops[k].i2 - ops[k].i1
                                THEN Lines1[ops[k].i1 + m] ELSE <<>>
                           g == IF m <= ops[k].j2 - ops[k].j1
                                THEN Lines2[ops[k].j1 + m] ELSE <<>>
                       IN  /\ r.li = (IF m <= ops[k].i2 - ops[k].i1 THEN ops[k].i1 + m ELSE 0)
                           /\ r.ri = (IF m <= ops[k].j2 - ops[k].j1 THEN ops[k].j1 + m ELSE 0)
                           /\ IF l = g
                              THEN r.kind = "equal" /\ r.left = html_escape(l)
                                   /\ r.right = html_escape(g)
                              ELSE r.kind = "change"

C9_Witness ==
    /\ pc = "done"
    /\ LET ops == LineOpcodes(text1, text2)
       IN  /\ Len(ops) >= 2
           /\ \E k \in DOMAIN ops :
                  /\ ops[k].tag = "replace"
                  /\ ops[k].i2 - ops[k].i1 # ops[k].j2 - ops[k].j1

\* ------------------------------------------ specification: word diff

InitWord ==
    /\ pc = "start"
    /\ a_line \in Strings(LineAlphabet, MaxLineLen)
    /\ b_line \in Strings(LineAlphabet, MaxLineLen)
    /\ out = <<>>
    /\ DiffIdle
    /\ MainIdle

WordLevelDiff ==
    /\ pc = "start"
    /\ out' = WordOut(a_line, b_line)
    /\ pc' = "done"
    /\ UNCHANGED <<a_line, b_line, diffVars, mainVars>>

NextWord == WordLevelDiff

SpecWord == InitWord /\ [][NextWord]_vars

\* ------------------------------------------------ claims: word diff

\* The segments of `out` carrying one of the marks, concatenated in order.
Marked(marks) ==
    Flatten([k \in DOMAIN out |-> IF out[k].mark \in marks THEN out[k].seg ELSE <<>>])

\* C10: word_level_diff renders every token once per side and in order: the
\* plain and deleted segments together are the escaped tokens of a_line, the
\* plain and inserted segments together are the escaped tokens of b_line, and
\* no segment carries another mark.
C10_TokensOncePerSide ==
    pc = "done" =>
        /\ \A k \in DOMAIN out : out[k].mark \in {"plain", "del", "ins"}
        /\ Marked({"plain", "del"}) = EscapeTokens(tokenize_words(a_line))
        /\ Marked({"plain", "ins"}) = EscapeTokens(tokenize_words(b_line))

C10_Witness ==
    /\ pc = "done"
    /\ \E k \in DOMAIN out : out[k].mark = "plain"
    /\ \E k \in DOMAIN out : out[k].mark = "del" /\ "&lt;" \in {out[k].seg[i] : i \in DOMAIN out[k].seg}
    /\ \E k \in DOMAIN out : out[k].mark = "ins"

\* ------------------------------------------------------------- strings

\* "APPROVED"
S_APPROVED ==
    <<"A", "P", "P", "R", "O", "V", "E", "D">>

\* "REJECTED"
S_REJECTED ==
    <<"R", "E", "J", "E", "C", "T", "E", "D">>

\* "Decision:"
S_DecisionLabel ==
    <<"D", "e", "c", "i", "s", "i", "o", "n", ":">>

\* "Error analyzing documents: "
S_ErrorPrefix ==
    <<"E", "r", "r", "o", "r", " ", "a", "n", "a", "l", "y", "z", "i", "n",
      "g", " ", "d", "o", "c", "u", "m", "e", "n", "t", "s", ":", " ">>

\* "Connection error."
S_ConnectionError ==
    <<"C", "o", "n", "n", "e", "c", "t", "i", "o", "n", " ", "e", "r", "r",
      "o", "r", ".">>

\* "list index out of range"
S_IndexError ==
    <<"l", "i", "s", "t", " ", "i", "n", "d", "e", "x", " ", "o", "u", "t",
      " ", "o", "f", " ", "r", "a", "n", "g", "e">>

\* "'NoneType' object has no attribute 'message'"
S_AttributeError ==
    <<"'", "N", "o", "n", "e", "T", "y", "p", "e", "'", " ", "o", "b", "j",
      "e", "c", "t", " ", "h", "a", "s", " ", "n", "o", " ", "a", "t", "t",
      "r", "i", "b", "u", "t", "e", " ", "'", "m", "e", "s", "s", "a", "g",
      "e", "'">>

\* "Decision: APPROVED"
L_DecisionApproved ==
    <<"D", "e", "c", "i", "s", "i", "o", "n", ":", " ", "A", "P", "P", "R",
      "O", "V", "E", "D">>

\* "Decision: REJECTED"
L_DecisionRejected ==
    <<"D", "e", "c", "i", "s", "i", "o", "n", ":", " ", "R", "E", "J", "E",
      "C", "T", "E", "D">>

\* "It cannot be approved."
L_NotApproved ==
    <<"I", "t", " ", "c", "a", "n", "n", "o", "t", " ", "b", "e", " ", "a",
      "p", "p", "r", "o", "v", "e", "d", ".">>

\* "Gaps: budget"
L_Gaps ==
    <<"G", "a", "p", "s", ":", " ", "b", "u", "d", "g", "e", "t">>

LowerCase ==
    <<"a", "b", "c", "d", "e", "f", "g", "h", "i", "j", "k", "l", "m",
      "n", "o", "p", "q", "r", "s", "t", "u", "v", "w", "x", "y", "z">>

UpperCase ==
    <<"A", "B", "C", "D", "E", "F", "G", "H", "I", "J", "K", "L", "M",
      "N", "O", "P", "Q", "R", "S", "T", "U", "V", "W", "X", "Y", "Z">>

\* str.upper()
upper(s) ==
    [i \in DOMAIN s |->
        IF \E k \in DOMAIN LowerCase : LowerCase[k] = s[i]
        THEN UpperCase[CHOOSE k \in DOMAIN LowerCase : LowerCase[k] = s[i]]
        ELSE s[i]]

\* needle in hay
Contains(hay, needle) ==
    \E i \in 0..(Len(hay) - Len(needle)) : SubSeq(hay, i + 1, i + Len(needle)) = needle

RECURSIVE JoinLines(_)
JoinLines(ls) ==
    IF ls = <<>> THEN <<>>
    ELSE IF Len(ls) = 1 THEN ls[1]
    ELSE ls[1] \o <<"\n">> \o JoinLines(Tail(ls))

\* ------------------------------------------------- get_document_text

PDF == "application/pdf"

DOCX == "application/vnd.openxmlformats-officedocument.wordprocessingml.document"

TXT == "text/plain"

UnsupportedMsg == "Unsupported file type. Please upload PDF, DOCX, or TXT files."

\* The else branch handing the file to the plain-text extractor.
Dispatch_fallthrough(file_type) ==
    CASE file_type = PDF  -> "extract_text_from_pdf"
      [] file_type = DOCX -> "extract_text_from_docx"
      [] OTHER            -> "extract_text_from_txt"

\* The extractor get_document_text hands a file of this type to, "" when
\* it has none.
Dispatch(file_type) ==
    CASE file_type = PDF  -> "extract_text_from_pdf"
      [] file_type = DOCX -> "extract_text_from_docx"
      [] file_type = TXT  -> "extract_text_from_txt"
      [] OTHER            -> ""

\* get_document_text(uploaded_file), the extractor returning `extracted`:
\* [result, extractor, error].
get_document_text(file_type, extracted) ==
    IF file_type = "None"
    THEN [result |-> None, extractor |-> "", error |-> ""]
    ELSE IF Dispatch(file_type) # ""
    THEN [result |-> extracted, extractor |-> Dispatch(file_type), error |-> ""]
    ELSE [result |-> None, extractor |-> "", error |-> UnsupportedMsg]

\* not doc_text: None or the empty string.
Falsy(doc_text) == doc_text = None \/ doc_text = <<>>

\* ------------------------------------------ analyze_document_approval

PromptCeiling == 3000

\* The slice with the ceiling off by one.
PromptSpan_off_by_one(doc_text) == Slice(doc_text, 0, PromptCeiling + 1)

\* circular_text[:3000], proposal_text[:3000]
PromptSpan(doc_text) == Slice(doc_text, 0, PromptCeiling)

\* The request of client.chat.completions.create.
Request(circular_text, proposal_text) ==
    [model      |-> "gpt-4",
     circular   |-> PromptSpan(circular_text),
     proposal   |-> PromptSpan(proposal_text),
     max_tokens |-> 1000]

\* What the try block does with the service's outcome:
\*   [kind |-> "raise", msg]    create() raises (a transport error);
\*   [kind |-> "no_choices"]    response.choices is empty: IndexError, caught;
\*   [kind |-> "malformed"]     an attribute is missing: AttributeError, caught;
\*   [kind |-> "content", content]  message.content, a string or None.
AnalysisReturn(outcome) ==
    CASE outcome.kind = "raise"      -> S_ErrorPrefix \o outcome.msg
      [] outcome.kind = "no_choices" -> S_ErrorPrefix \o S_IndexError
      [] outcome.kind = "malformed"  -> S_ErrorPrefix \o S_AttributeError
      [] outcome.kind = "content"    -> outcome.content

\* ------------------------------------------------ the decision banner

\* if "APPROVED" in analysis_result.upper() ... elif "REJECTED" in ...
Banner(result) ==
    IF Contains(upper(result), S_APPROVED) THEN "PROPOSAL APPROVED"
    ELSE IF Contains(upper(result), S_REJECTED) THEN "PROPOSAL REJECTED"
    ELSE ""

\* --------------------------------------------------- main: its inputs

MaxDocLen == 2
MaxReplyLines == 2
MaxOver == 2

MainAlphabet == {"a", "\n"}

DocTexts == Strings(MainAlphabet, MaxDocLen)

FileTypes == {PDF, DOCX, TXT, "image/png"}

Modes == {"Approval Analyzer", "Compare Documents"}

SecretStates == {"no openai section", "no api_key", "configured"}

ReplyLines == {L_DecisionApproved, L_DecisionRejected, L_NotApproved, L_Gaps}

Replies == {JoinLines(ls) : ls \in UNION {[1..n -> ReplyLines] : n \in 0..MaxReplyLines}}

ServiceOutcomes ==
    {[kind |-> "raise", msg |-> S_ConnectionError],
     [kind |-> "no_choices"],
     [kind |-> "malformed"],
     [kind |-> "content", content |-> None]}
    \cup {[kind |-> "content", content |-> r] : r \in Replies}

\* ------------------------------------------------- specification: main
\* One run of the script main(), top to bottom.

Init ==
    /\ pc = "main"
    /\ secrets \in SecretStates
    /\ mode = "" /\ client = None
    /\ doc1_file = "None" /\ doc2_file = "None"
    /\ doc1_text = None /\ doc2_text = None
    /\ analysis_result = None /\ shown = "" /\ diff_html = None
    /\ errors = <<>> /\ gdt_calls = <<>> /\ requests = <<>> /\ raised_at = ""
    /\ DiffIdle
    /\ WordIdle

\* st.sidebar.radio, then client = None.
SelectMode ==
    /\ pc = "main"
    /\ mode' \in Modes
    /\ client' = None
    /\ pc' = "init_client"
    /\ UNCHANGED <<secrets, doc1_file, doc2_file, doc1_text, doc2_text, analysis_result,
                   shown, diff_html, errors, gdt_calls, requests, raised_at,
                   diffVars, wordVars>>

\* The credential check that shows its error and goes on.
CredentialMissing_no_stop ==
    /\ pc = "init_client"
    /\ mode = "Approval Analyzer"
    /\ secrets # "configured"
    /\ errors' = Append(errors, "AI API key not found in app configuration. Please contact the administrator.")
    /\ pc' = "upload"
    /\ UNCHANGED <<secrets, mode, client, doc1_file, doc2_file, doc1_text, doc2_text,
                   analysis_result, shown, diff_html, gdt_calls, requests, raised_at,
                   diffVars, wordVars>>

\* The credential is absent: st.error, st.stop().
CredentialMissing ==
    /\ pc = "init_client"
    /\ mode = "Approval Analyzer"
    /\ secrets # "configured"
    /\ errors' = Append(errors, "AI API key not found in app configuration. Please contact the administrator.")
    /\ pc' = "stopped"
    /\ UNCHANGED <<secrets, mode, client, doc1_file, doc2_file, doc1_text, doc2_text,
                   analysis_result, shown, diff_html, gdt_calls, requests, raised_at,
                   diffVars, wordVars>>

\* OpenAI(api_key=api_key) returns the client, or raises: st.error, return.
ConstructClient ==
    /\ pc = "init_client"
    /\ mode = "Approval Analyzer"
    /\ secrets = "configured"
    /\ \E constructed \in BOOLEAN :
          IF constructed
          THEN /\ client' = <<"OpenAI">>
               /\ pc' = "upload"
               /\ UNCHANGED errors
          ELSE /\ errors' = Append(errors, "Error initializing AI backend. Please contact the administrator.")
               /\ pc' = "returned"
               /\ UNCHANGED client
    /\ UNCHANGED <<secrets, mode, doc1_file, doc2_file, doc1_text, doc2_text,
                   analysis_result, shown, diff_html, gdt_calls, requests, raised_at,
                   diffVars, wordVars>>

\* In Compare Documents mode the credential block is skipped.
SkipClient ==
    /\ pc = "init_client"
    /\ mode # "Approval Analyzer"
    /\ pc' = "upload"
    /\ UNCHANGED <<mainVars, diffVars, wordVars>>

\* The two st.file_uploader widgets, then `if doc1_file and doc2_file`.
Upload ==
    /\ pc = "upload"
    /\ doc1_file' \in FileTypes \cup {"None"}
    /\ doc2_file' \in FileTypes \cup {"None"}
    /\ pc' = IF doc1_file' # "None" /\ doc2_file' # "None" THEN "extract1" ELSE "tail"
    /\ UNCHANGED <<secrets, mode, client, doc1_text, doc2_text, analysis_result, shown,
                   diff_html, errors, gdt_calls, requests, raised_at, diffVars, wordVars>>

\* What an extractor does with a file: the PDF and DOCX readers may raise.
ExtractorRaises(file_type) == file_type \in {PDF, DOCX}

\* doc1_text = get_document_text(doc1_file)
Extract1 ==
    /\ pc = "extract1"
    /\ \/ \E extracted \in DocTexts :
             LET r == get_document_text(doc1_file, extracted)
             IN  /\ doc1_text' = r.result
                 /\ errors' = IF r.error # "" THEN Append(errors, r.error) ELSE errors
                 /\ gdt_calls' = Append(gdt_calls,
                        [doc |-> 1, type |-> doc1_file, extractor |-> r.extractor,
                         extracted |-> extracted, result |-> r.result])
                 /\ pc' = "extract2"
                 /\ UNCHANGED raised_at
       \/ /\ ExtractorRaises(doc1_file)
          /\ gdt_calls' = Append(gdt_calls,
                 [doc |-> 1, type |-> doc1_file, extractor |-> Dispatch(doc1_file),
                  extracted |-> None, result |-> None])
          /\ raised_at' = "get_document_text"
          /\ pc' = "raised"
          /\ UNCHANGED <<doc1_text, errors>>
    /\ UNCHANGED <<secrets, mode, client, doc1_file, doc2_file, doc2_text, analysis_result,
                   shown, diff_html, requests, diffVars, wordVars>>

\* doc2_text = get_document_text(doc2_file)
Extract2 ==
    /\ pc = "extract2"
    /\ \/ \E extracted \in DocTexts :
             LET r == get_document_text(doc2_file, extracted)
             IN  /\ doc2_text' = r.result
                 /\ errors' = IF r.error # "" THEN Append(errors, r.error) ELSE errors
                 /\ gdt_calls' = Append(gdt_calls,
                        [doc |-> 2, type |-> doc2_file, extractor |-> r.extractor,
                         extracted |-> extracted, result |-> r.result])
                 /\ pc' = "check"
                 /\ UNCHANGED raised_at
       \/ /\ ExtractorRaises(doc2_file)
          /\ gdt_calls' = Append(gdt_calls,
                 [doc |-> 2, type |-> doc2_file, extractor |-> Dispatch(doc2_file),
                  extracted |-> None, result |-> None])
          /\ raised_at' = "get_document_text"
          /\ pc' = "raised"
          /\ UNCHANGED <<doc2_text, errors>>
    /\ UNCHANGED <<secrets, mode, client, doc1_file, doc2_file, doc1_text, analysis_result,
                   shown, diff_html, requests, diffVars, wordVars>>

\* if not doc1_text or not doc2_text: st.error, return.
CheckTexts ==
    /\ pc = "check"
    /\ IF Falsy(doc1_text) \/ Falsy(doc2_text)
       THEN /\ errors' = Append(errors, "Failed to extract text from one or both documents.")
            /\ pc' = "returned"
       ELSE /\ pc' = "act"
            /\ UNCHANGED errors
    /\ UNCHANGED <<secrets, mode, client, doc1_file, doc2_file, doc1_text, doc2_text,
                   analysis_result, shown, diff_html, gdt_calls, requests, raised_at,
                   diffVars, wordVars>>

\* Approval Analyzer, the button not clicked: nothing more is shown.
NoClick ==
    /\ pc = "act"
    /\ mode = "Approval Analyzer"
    /\ pc' = "tail"
    /\ UNCHANGED <<mainVars, diffVars, wordVars>>

\* The button clicked: analysis_result = analyze_document_approval(client,
\* doc1_text, doc2_text), whatever the service does with the request.
AnalyzeProposal ==
    /\ pc = "act"
    /\ mode = "Approval Analyzer"
    /\ requests' = Append(requests, Request(doc1_text, doc2_text))
    /\ \E outcome \in ServiceOutcomes : analysis_result' = AnalysisReturn(outcome)
    /\ pc' = "display"
    /\ UNCHANGED <<secrets, mode, client, doc1_file, doc2_file, doc1_text, doc2_text,
                   shown, diff_html, errors, gdt_calls, raised_at, diffVars, wordVars>>

\* The decision banner, st.markdown(analysis_result) and the statistics.
\* None has no upper(): the AttributeError escapes main.
ShowDecision ==
    /\ pc = "display"
    /\ IF analysis_result = None
       THEN /\ raised_at' = "analysis_result.upper()"
            /\ pc' = "raised"
            /\ UNCHANGED shown
       ELSE /\ shown' = Banner(analysis_result)
            /\ pc' = "tail"
            /\ UNCHANGED raised_at
    /\ UNCHANGED <<secrets, mode, client, doc1_file, doc2_file, doc1_text, doc2_text,
                   analysis_result, diff_html, errors, gdt_calls, requests,
                   diffVars, wordVars>>

\* Compare Documents: the statistics, then side_by_side_diff(doc1_text, doc2_text).
CompareDocuments ==
    /\ pc = "act"
    /\ mode = "Compare Documents"
    /\ diff_html' = NumberRows(BuildRows(doc1_text, doc2_text), 1, 1)
    /\ pc' = "tail"
    /\ UNCHANGED <<secrets, mode, client, doc1_file, doc2_file, doc1_text, doc2_text,
                   analysis_result, shown, errors, gdt_calls, requests, raised_at,
                   diffVars, wordVars>>

\* The "How to use" expander and the footer.
Tail_ ==
    /\ pc = "tail"
    /\ pc' = "done"
    /\ UNCHANGED <<mainVars, diffVars, wordVars>>

Next ==
    \/ SelectMode
    \/ CredentialMissing
    \/ ConstructClient
    \/ SkipClient
    \/ Upload
    \/ Extract1
    \/ Extract2
    \/ CheckTexts
    \/ NoClick
    \/ AnalyzeProposal
    \/ ShowDecision
    \/ CompareDocuments
    \/ Tail_

Spec == Init /\ [][Next]_vars

\* --------------------------------------- specification: the prompt
\* analyze_document_approval called by main on two extracted documents,
\* some of them longer than the ceiling.

PromptDoc(n) == [i \in 1..n |-> <<"a", "b", "c">>[(i % 3) + 1]]

PromptLens == (1..MaxDocLen) \cup ((PromptCeiling - MaxOver)..(PromptCeiling + MaxOver))

InitPrompt ==
    /\ pc = "act"
    /\ secrets = "configured"
    /\ mode = "Approval Analyzer"
    /\ client = <<"OpenAI">>
    /\ doc1_file = TXT /\ doc2_file = TXT
    /\ \E n1 \in PromptLens, n2 \in PromptLens :
          /\ doc1_text = PromptDoc(n1)
          /\ doc2_text = PromptDoc(n2)
    /\ analysis_result = None /\ shown = "" /\ diff_html = None
    /\ errors = <<>> /\ requests = <<>> /\ raised_at = ""
    /\ gdt_calls =
          <<[doc |-> 1, type |-> TXT, extractor |-> Dispatch(TXT),
             extracted |-> doc1_text, result |-> doc1_text],
            [doc |-> 2, type |-> TXT, extractor |-> Dispatch(TXT),
             extracted |-> doc2_text, result |-> doc2_text]>>
    /\ DiffIdle
    /\ WordIdle

NextPrompt == AnalyzeProposal \/ NoClick \/ Tail_

SpecPrompt == InitPrompt /\ [][NextPrompt]_vars

\* ------------------------------------------------------ claims: main

StartsWith(s, prefix) == Len(s) >= Len(prefix) /\ SubSeq(s, 1, Len(prefix)) = prefix

RECURSIVE Strip(_)
Strip(s) ==
    IF s = <<>> THEN s
    ELSE IF IsSpace(s[1]) THEN Strip(Tail(s))
    ELSE IF IsSpace(s[Len(s)]) THEN Strip(SubSeq(s, 1, Len(s) - 1))
    ELSE s

\* The text after the separator on the first line starting with the label,
\* None when no line starts with it.
DecisionLine(result) ==
    LET ls  == split_lines(result)
        idx == {k \in DOMAIN ls : StartsWith(ls[k], S_DecisionLabel)}
    IN  IF idx = {} THEN None
        ELSE LET k == CHOOSE k \in idx : \A m \in idx : k <= m
             IN  Strip(SubSeq(ls[k], Len(S_DecisionLabel) + 1, Len(ls[k])))

Displayed == requests # <<>> /\ pc \in {"tail", "done"}

\* C4: the decision shown comes from the first line of the reply that starts
\* with "Decision:": with no such line no verdict is shown, and a reply whose
\* decision line says REJECTED is never shown as approved.
C4_DecisionFromLabelledLine ==
    Displayed =>
        /\ DecisionLine(analysis_result) = None => shown = ""
        /\ DecisionLine(analysis_result) = S_REJECTED => shown # "PROPOSAL APPROVED"

\* C5: whatever the service does, analyze_document_approval returns text (the
\* verdict or an error string) and main's handling of it raises nothing.
C5_AnalysisNeverEscapes ==
    /\ (requests # <<>>) => analysis_result # None
    /\ raised_at # "analysis_result.upper()"

DocumentWork == gdt_calls # <<>> \/ requests # <<>> \/ diff_html # None

ConfigErrors ==
    {"AI API key not found in app configuration. Please contact the administrator.",
     "Error initializing AI backend. Please contact the administrator."}

\* C6, as stated: no extraction, analysis or diff happens without a
\* successful initialisation of the client.
C6_NoWorkWithoutClient == DocumentWork => client # None

\* C6, amended: in Approval Analyzer mode a failed initialisation shows a
\* configuration error and ends the run before any document work, and no
\* request is ever sent without a client; in Compare Documents mode no client
\* is built and the documents are extracted and compared without one.
C6_ApprovalHaltsBeforeWork ==
    /\ (mode = "Approval Analyzer" /\ DocumentWork) => client # None
    /\ requests # <<>> => client # None
    /\ (mode = "Approval Analyzer" /\ pc # "init_client" /\ client = None) =>
           /\ pc \in {"stopped", "returned"}
           /\ Len(errors) = 1 /\ errors[1] \in ConfigErrors
           /\ ~DocumentWork
    /\ mode = "Compare Documents" => client = None /\ requests = <<>>

C6_Witness ==
    /\ pc = "stopped"
    /\ mode = "Approval Analyzer"
    /\ secrets = "no api_key"
    /\ client = None
    /\ errors # <<>>

Supported == {PDF, DOCX, TXT}

Matching(file_type) ==
    IF file_type = PDF THEN "extract_text_from_pdf"
    ELSE IF file_type = DOCX THEN "extract_text_from_docx"
    ELSE "extract_text_from_txt"

\* C7: get_document_text hands a PDF, DOCX or plain-text file to the matching
\* extractor, and to no other, and returns its text; for any other declared
\* type it reports the error and returns None, and main then sends no
\* request and builds no diff.
C7_DispatchByDeclaredType ==
    /\ \A k \in DOMAIN gdt_calls :
          LET c == gdt_calls[k]
          IN  /\ c.doc = k
              /\ c.type = (IF k = 1 THEN doc1_file ELSE doc2_file)
              /\ c.result = (IF k = 1 THEN doc1_text ELSE doc2_text)
              /\ IF c.type \in Supported
                 THEN c.extractor = Matching(c.type) /\ c.result = c.extracted
                 ELSE /\ c.extractor = ""
                      /\ c.result = None
                      /\ \E e \in DOMAIN errors : errors[e] = UnsupportedMsg
    /\ Len(gdt_calls) <= 2
    /\ (\E k \in DOMAIN gdt_calls : gdt_calls[k].type \notin Supported) =>
          /\ requests = <<>>
          /\ diff_html = None
          /\ analysis_result = None
          /\ pc \in {"extract2", "check", "returned", "raised"}

C7_Witness ==
    /\ pc = "returned"
    /\ doc1_file = "image/png" /\ doc1_text = None
    /\ doc2_file = TXT /\ doc2_text = <<"a">>
    /\ Len(gdt_calls) = 2
    /\ gdt_calls[2].extractor = "extract_text_from_txt"

SpanIsPrefix(span, doc) ==
    /\ Len(span) <= PromptCeiling
    /\ Len(span) = Min(Len(doc), PromptCeiling)
    /\ \A i \in DOMAIN span : span[i] = doc[i]
    /\ Len(doc) < PromptCeiling => span = doc

\* C8: in every request sent, each document span of the prompt is the prefix
\* of its document of length min(len(document), 3000).
C8_SpansArePrefixes ==
    \A k \in DOMAIN requests :
        /\ SpanIsPrefix(requests[k].circular, doc1_text)
        /\ SpanIsPrefix(requests[k].proposal, doc2_text)

C8_Witness ==
    /\ requests # <<>>
    /\ Len(doc1_text) > PromptCeiling
    /\ Len(doc2_text) < PromptCeiling
    /\ Len(requests[1].circular) = PromptCeiling
    /\ requests[1].proposal = doc2_text

====
